---- MODULE Spec2Model ----
(***************************************************************************)
(* Propositional-logic core of the repository: the semantics engine        *)
(* (propositions/semantics.py), the deduction engine                       *)
(* (propositions/deduction.py) and the soundness engine                    *)
(* (propositions/soundness.py).  Every function of the program is pure, so *)
(* each one is an operator and each action is one call of one function:    *)
(* the action draws the arguments, checks the function's assertions and    *)
(* records the returned value.                                             *)
(*                                                                         *)
(* Python values are represented as follows.                               *)
(*   Formula(root, first, second)  [root |-> string, kids |-> <<...>>]     *)
(*   dict (a Model)                sequence of <<key, value>> pairs kept   *)
(*                                 in insertion order, keys unique         *)
(*   InferenceRule                 [assumptions |-> <<...>>, conclusion]   *)
(*   Proof.Line                    [formula, rule, assumptions]; rule is   *)
(*                                 <<>> for an assumption line and <<r>>   *)
(*                                 for a line justified by rule r          *)
(*   Proof                         [statement, rules, lines]               *)
(*   None                          <<>>, any other returned value v of a   *)
(*                                 function that may return None is <<v>>  *)
(* Line numbers stored in a line are the 0-based numbers of the program.   *)
(***************************************************************************)
EXTENDS Integers, Sequences, FiniteSets, TLC

VARIABLES call, args, ret

vars == <<call, args, ret>>

(***************************************************************************)
(* Bounds of the model.                                                    *)
(***************************************************************************)
\* depth of the formulas given to evaluate
MaxDepth == 2
\* length of the variable lists given to all_models and synthesize
MaxVars == 2
\* number of assumptions of the rules given to evaluate_inference
MaxRuleAssumptions == 1
\* number of lines of an input proof
MaxLines == 3
\* number of lines of the two proofs given to combine_proofs, together
MaxCombinedLines == 4
\* number of times the value of one call of all_models is iterated
MaxPasses == 2
\* number of models given to truth_values
MaxModels == 2

(***************************************************************************)
(* Formulas (propositions/syntax.py).                                      *)
(***************************************************************************)
VarNames == {"p", "q", "r"}

BinaryOps == {"&", "|", "->", "+", "<->", "-&", "-|"}

is_variable(s) == s \in VarNames

is_constant(s) == s \in {"T", "F"}

is_unary(s) == s = "~"

is_binary(s) == s \in BinaryOps

Formula0(root) == [root |-> root, kids |-> <<>>]

Formula1(root, first) == [root |-> root, kids |-> <<first>>]

Formula2(root, first, second) == [root |-> root, kids |-> <<first, second>>]

first(formula) == formula.kids[1]

second(formula) == formula.kids[2]

RECURSIVE formula_variables(_)
formula_variables(formula) ==
    IF is_variable(formula.root) THEN {formula.root}
    ELSE UNION {formula_variables(formula.kids[i]) : i \in DOMAIN formula.kids}

(***************************************************************************)
(* Python dict.                                                            *)
(***************************************************************************)
DictKeys(d) == {d[i][1] : i \in DOMAIN d}

DictGet(d, k) == d[CHOOSE i \in DOMAIN d : d[i][1] = k][2]

\* d[k] = v : an existing key keeps its place, a new key goes last
DictSet(d, k, v) ==
    IF k \in DictKeys(d)
    THEN [i \in DOMAIN d |-> IF d[i][1] = k THEN <<k, v>> ELSE d[i]]
    ELSE Append(d, <<k, v>>)

None == <<>>

Some(v) == <<v>>

\* the outcome of a call that may raise: the returned value, or the
\* AssertionError of a failed assert statement
Returned(v) == [raised |-> FALSE, value |-> v]

RaisedAssertionError == [raised |-> TRUE, value |-> None]

(***************************************************************************)
(* Semantics engine (propositions/semantics.py).                           *)
(***************************************************************************)
is_model(model) == \A k \in DictKeys(model) : is_variable(k)

variables(model) ==
    IF ~is_model(model) THEN RaisedAssertionError ELSE Returned(DictKeys(model))

binary_value_xor_as_iff(root, left, right) ==
    IF root = "&" THEN left /\ right
    ELSE IF root = "|" THEN left \/ right
    ELSE IF root = "->" THEN (~left) \/ right
    ELSE IF root = "+" THEN left = right
    ELSE IF root = "<->" THEN left = right
    ELSE IF root = "-&" THEN ~(left /\ right)
    ELSE IF root = "-|" THEN ~(left \/ right)
    ELSE FALSE

\* the chain of tests on the root of a binary formula
binary_value(root, left, right) ==
    IF root = "&" THEN left /\ right
    ELSE IF root = "|" THEN left \/ right
    ELSE IF root = "->" THEN (~left) \/ right
    ELSE IF root = "+" THEN left # right
    ELSE IF root = "<->" THEN left = right
    ELSE IF root = "-&" THEN ~(left /\ right)
    ELSE IF root = "-|" THEN ~(left \/ right)
    ELSE FALSE

RECURSIVE evaluate(_, _)
\* the two assertions run at every call, the recursive ones included, and an
\* AssertionError of a recursive call passes through
evaluate(formula, model) ==
    LET root == formula.root IN
    IF ~is_model(model) THEN RaisedAssertionError
    ELSE IF variables(model).raised
            \/ ~(formula_variables(formula) \subseteq variables(model).value)
    THEN RaisedAssertionError
    ELSE IF is_constant(root) THEN Returned(root = "T")
    ELSE IF is_variable(root) THEN Returned(DictGet(model, root))
    ELSE IF is_unary(root)
         THEN LET value == evaluate(first(formula), model) IN
              IF value.raised THEN RaisedAssertionError ELSE Returned(~value.value)
    ELSE IF is_binary(root)
         THEN LET left == evaluate(first(formula), model)
                  right == evaluate(second(formula), model)
              IN IF left.raised \/ right.raised THEN RaisedAssertionError
                 ELSE Returned(binary_value(root, left.value, right.value))
    ELSE Returned(FALSE)

Pow2(n) == 2 ^ n

\* bool((i >> s) & 1)
Bit(i, s) == (i \div Pow2(s)) % 2 = 1

RECURSIVE model_of_index_lsb_first(_, _, _, _)
model_of_index_lsb_first(vs, i, n, j) ==
    IF j = 0 THEN <<>>
    ELSE DictSet(model_of_index_lsb_first(vs, i, n, j - 1), vs[j], Bit(i, j - 1))

RECURSIVE model_of_index(_, _, _, _)
\* the dict of iteration i of the outer loop after j rounds of the inner one;
\* n is the local the body set when it started, vs the list as it is now
model_of_index(vs, i, n, j) ==
    IF j = 0 THEN <<>>
    ELSE DictSet(model_of_index(vs, i, n, j - 1), vs[j], Bit(i, n - 1 - (j - 1)))

\* the list comprehension: the AssertionError of an evaluate passes through
truth_values(formula, models) ==
    LET values == [i \in DOMAIN models |-> evaluate(formula, models[i])] IN
    IF \E i \in DOMAIN values : values[i].raised THEN RaisedAssertionError
    ELSE Returned([i \in DOMAIN values |-> values[i].value])

\* the generator object a call of all_models returns: no line of the body
\* has run; once it has started n is its local n and next_i the value the
\* outer loop takes next
generator_new == [started |-> FALSE, finished |-> FALSE, n |-> 0, next_i |-> 0]

Ended(gen) == [gen EXCEPT !.finished = TRUE]

generator_next_restarting(vs, gen) ==
    LET n == IF gen.started THEN gen.n ELSE Len(vs) IN
    IF ~gen.started /\ ~(\A j \in DOMAIN vs : is_variable(vs[j]))
    THEN [gen |-> Ended(gen), yielded |-> None, error |-> "AssertionError"]
    ELSE IF gen.next_i < Pow2(n)
    THEN IF n > Len(vs)
         THEN [gen |-> Ended(gen), yielded |-> None, error |-> "IndexError"]
         ELSE [gen |-> [started |-> TRUE, finished |-> FALSE, n |-> n,
                        next_i |-> gen.next_i + 1],
               yielded |-> Some(model_of_index(vs, gen.next_i, n, n)), error |-> "none"]
    ELSE [gen |-> generator_new, yielded |-> None, error |-> "none"]

\* next(gen) with the list `variables` holding vs: the body runs to its next
\* yield. yielded is None when the body ends (StopIteration) or raises, and a
\* generator that has ended stays ended. The assertions and n = len(variables)
\* run at the first next; variables[j] is read anew for every model.
generator_next(vs, gen) ==
    LET n == IF gen.started THEN gen.n ELSE Len(vs) IN
    IF gen.finished
    THEN [gen |-> gen, yielded |-> None, error |-> "none"]
    ELSE IF ~gen.started /\ ~(\A j \in DOMAIN vs : is_variable(vs[j]))
    THEN [gen |-> Ended(gen), yielded |-> None, error |-> "AssertionError"]
    ELSE IF gen.next_i < Pow2(n)
    THEN IF n > Len(vs)
         THEN [gen |-> Ended(gen), yielded |-> None, error |-> "IndexError"]
         ELSE [gen |-> [started |-> TRUE, finished |-> FALSE, n |-> n,
                        next_i |-> gen.next_i + 1],
               yielded |-> Some(model_of_index(vs, gen.next_i, n, n)), error |-> "none"]
    ELSE [gen |-> [started |-> TRUE, finished |-> TRUE, n |-> n, next_i |-> gen.next_i],
          yielded |-> None, error |-> "none"]

RECURSIVE generator_list(_, _)
\* list(gen), with nothing else running between two models: the list of the
\* models, or the exception of the body, which list() lets through
generator_list(vs, gen) ==
    LET step == generator_next(vs, gen) IN
    IF step.error # "none" THEN [error |-> step.error, value |-> <<>>]
    ELSE IF step.yielded = None THEN [error |-> "none", value |-> <<>>]
    ELSE LET rest == generator_list(vs, step.gen) IN
         IF rest.error # "none" THEN rest
         ELSE [error |-> "none", value |-> <<step.yielded[1]>> \o rest.value]

\* list(all_models(variables)), as synthesize calls it
list_all_models(vs) == generator_list(vs, generator_new)

RECURSIVE synthesize_for_model_upto(_, _)
\* res after the first n items of the model
synthesize_for_model_upto(model, n) ==
    LET var == model[n][1]
        val == model[n][2]
        atom == IF val THEN Formula0(var) ELSE Formula1("~", Formula0(var))
    IN IF n = 1 THEN atom
       ELSE Formula2("&", synthesize_for_model_upto(model, n - 1), atom)

synthesize_for_model(model) ==
    IF ~is_model(model) \/ Len(model) = 0 THEN RaisedAssertionError
    ELSE Returned(synthesize_for_model_upto(model, Len(model)))

RECURSIVE FoldOr(_, _)
\* res after the loop has reached clause n
FoldOr(clauses, n) ==
    IF n = 1 THEN clauses[1]
    ELSE Formula2("|", FoldOr(clauses, n - 1), clauses[n])

Min(a, b) == IF a < b THEN a ELSE b

\* the indices zip(models, values) reaches whose value is True
PickedModels(models, values) ==
    SelectSeq([i \in 1 .. Min(Len(models), Len(values)) |-> i], LAMBDA i : values[i])

synthesize_drop_first_clause(vs, values) ==
    LET listed == list_all_models(vs)
        picked == SelectSeq(PickedModels(listed.value, values), LAMBDA i : i > 1)
        clauses == [n \in DOMAIN picked |-> synthesize_for_model(listed.value[picked[n]])]
    IN IF Len(vs) = 0 \/ listed.error # "none" THEN RaisedAssertionError
       ELSE IF \E n \in DOMAIN clauses : clauses[n].raised THEN RaisedAssertionError
       ELSE IF clauses = <<>>
       THEN Returned(Formula2("&", Formula0(vs[1]), Formula1("~", Formula0(vs[1]))))
       ELSE Returned(FoldOr([n \in DOMAIN clauses |-> clauses[n].value], Len(clauses)))

synthesize(vs, values) ==
    LET listed == list_all_models(vs)
        picked == PickedModels(listed.value, values)
        clauses == [n \in DOMAIN picked |-> synthesize_for_model(listed.value[picked[n]])]
    IN IF Len(vs) = 0 \/ listed.error # "none" THEN RaisedAssertionError
       ELSE IF \E n \in DOMAIN clauses : clauses[n].raised THEN RaisedAssertionError
       ELSE IF clauses = <<>>
       THEN Returned(Formula2("&", Formula0(vs[1]), Formula1("~", Formula0(vs[1]))))
       ELSE Returned(FoldOr([n \in DOMAIN clauses |-> clauses[n].value], Len(clauses)))

InferenceRule(assumptions, conclusion) ==
    [assumptions |-> assumptions, conclusion |-> conclusion]

\* the body is the assertion alone: the call falls off its end
evaluate_inference(rule, model) ==
    IF ~is_model(model) THEN RaisedAssertionError ELSE Returned(None)

(***************************************************************************)
(* Inference rules and proofs (propositions/proofs.py) and the axioms      *)
(* (propositions/axiomatic_systems.py).                                    *)
(***************************************************************************)
Implies(f, g) == Formula2("->", f, g)

Neg(f) == Formula1("~", f)

P == Formula0("p")

Q == Formula0("q")

R == Formula0("r")

MP == InferenceRule(<<P, Implies(P, Q)>>, Q)

I0 == InferenceRule(<<>>, Implies(P, P))

I1 == InferenceRule(<<>>, Implies(P, Implies(Q, P)))

D == InferenceRule(<<>>, Implies(Implies(P, Implies(Q, R)),
                                 Implies(Implies(P, Q), Implies(P, R))))

I2 == InferenceRule(<<>>, Implies(Neg(P), Implies(P, Q)))

N == InferenceRule(<<>>, Implies(Implies(Neg(P), Neg(Q)), Implies(Q, P)))

\* a substitution is a set of <<variable, formula>> pairs; ok is FALSE when
\* the two formulas do not match or a variable got two formulas
MergeMaps(m1, m2) ==
    [ok |-> m1.ok /\ m2.ok
              /\ \A a \in m1.map, b \in m2.map : a[1] = b[1] => a[2] = b[2],
     map |-> m1.map \cup m2.map]

RECURSIVE formula_specialization_map(_, _)
formula_specialization_map(general, specialization) ==
    IF is_variable(general.root)
    THEN [ok |-> TRUE, map |-> {<<general.root, specialization>>}]
    ELSE IF general.root # specialization.root
              \/ Len(general.kids) # Len(specialization.kids)
    THEN [ok |-> FALSE, map |-> {}]
    ELSE IF Len(general.kids) = 0 THEN [ok |-> TRUE, map |-> {}]
    ELSE IF Len(general.kids) = 1
    THEN formula_specialization_map(general.kids[1], specialization.kids[1])
    ELSE MergeMaps(formula_specialization_map(general.kids[1], specialization.kids[1]),
                   formula_specialization_map(general.kids[2], specialization.kids[2]))

RECURSIVE MergeRuleMaps(_, _, _)
\* the merged maps of the first n assumptions and of the conclusion
MergeRuleMaps(general, specialization, n) ==
    IF n = 0
    THEN formula_specialization_map(general.conclusion, specialization.conclusion)
    ELSE MergeMaps(MergeRuleMaps(general, specialization, n - 1),
                   formula_specialization_map(general.assumptions[n],
                                              specialization.assumptions[n]))

specialization_map(general, specialization) ==
    IF Len(general.assumptions) # Len(specialization.assumptions)
    THEN [ok |-> FALSE, map |-> {}]
    ELSE MergeRuleMaps(general, specialization, Len(general.assumptions))

is_specialization_of(specialization, general) ==
    specialization_map(general, specialization).ok

Line(formula, rule, assumptions) ==
    [formula |-> formula, rule |-> <<rule>>, assumptions |-> assumptions]

AssumptionLine(formula) ==
    [formula |-> formula, rule |-> <<>>, assumptions |-> <<>>]

is_assumption(line) == line.rule = <<>>

Proof(statement, rules, lines) ==
    [statement |-> statement, rules |-> rules, lines |-> lines]

Range(s) == {s[i] : i \in DOMAIN s}

\* the rule instance of line number line_number (0-based) of the proof
rule_for_line(proof, line_number) ==
    LET line == proof.lines[line_number + 1] IN
    InferenceRule([i \in DOMAIN line.assumptions |->
                      proof.lines[line.assumptions[i] + 1].formula],
                  line.formula)

is_line_valid(proof, line_number) ==
    LET line == proof.lines[line_number + 1] IN
    IF is_assumption(line)
    THEN line.formula \in Range(proof.statement.assumptions)
    ELSE /\ line.rule[1] \in proof.rules
         /\ \A a \in Range(line.assumptions) : a >= 0 /\ a < line_number
         /\ is_specialization_of(rule_for_line(proof, line_number), line.rule[1])

is_valid(proof) ==
    /\ Len(proof.lines) > 0
    /\ proof.lines[Len(proof.lines)].formula = proof.statement.conclusion
    /\ \A n \in 0 .. Len(proof.lines) - 1 : is_line_valid(proof, n)

(***************************************************************************)
(* Deduction engine (propositions/deduction.py).                           *)
(***************************************************************************)
prove_corollary_refs_after_append(antecedent_proof, consequent, conditional) ==
    LET antecedent == antecedent_proof.statement.conclusion
        lines1 == Append(antecedent_proof.lines,
                         Line(Implies(antecedent, consequent), conditional, <<>>))
        lines2 == Append(lines1, Line(consequent, MP, <<Len(lines1) - 1, Len(lines1)>>))
    IN Proof(InferenceRule(antecedent_proof.statement.assumptions, consequent),
             antecedent_proof.rules \cup {MP, conditional}, lines2)

prove_corollary_swapped_refs(antecedent_proof, consequent, conditional) ==
    LET antecedent == antecedent_proof.statement.conclusion
        lines1 == Append(antecedent_proof.lines,
                         Line(Implies(antecedent, consequent), conditional, <<>>))
        lines2 == Append(lines1, Line(consequent, MP, <<Len(lines1) - 1, Len(lines1) - 2>>))
    IN Proof(InferenceRule(antecedent_proof.statement.assumptions, consequent),
             antecedent_proof.rules \cup {MP, conditional}, lines2)

prove_corollary(antecedent_proof, consequent, conditional) ==
    LET antecedent == antecedent_proof.statement.conclusion
        lines1 == Append(antecedent_proof.lines,
                         Line(Implies(antecedent, consequent), conditional, <<>>))
        lines2 == Append(lines1, Line(consequent, MP, <<Len(lines1) - 2, Len(lines1) - 1>>))
    IN Proof(InferenceRule(antecedent_proof.statement.assumptions, consequent),
             antecedent_proof.rules \cup {MP, conditional}, lines2)

\* a line of the second proof as it is appended after shift lines
shifted_line(line, shift) ==
    IF is_assumption(line) THEN line
    ELSE Line(line.formula, line.rule[1],
              [i \in DOMAIN line.assumptions |-> line.assumptions[i] + shift])

combine_proofs_no_shift(antecedent1_proof, antecedent2_proof, consequent, double_conditional) ==
    LET a1 == antecedent1_proof.statement.conclusion
        a2 == antecedent2_proof.statement.conclusion
        shift == Len(antecedent1_proof.lines)
        copied == antecedent1_proof.lines \o antecedent2_proof.lines
        idx_a1 == shift - 1
        idx_a2 == Len(copied) - 1
        lines1 == Append(copied, Line(Implies(a1, Implies(a2, consequent)),
                                      double_conditional, <<>>))
        idx_axiom == Len(lines1) - 1
        lines2 == Append(lines1, Line(Implies(a2, consequent), MP, <<idx_a1, idx_axiom>>))
        idx_intermediate == Len(lines2) - 1
        lines3 == Append(lines2, Line(consequent, MP, <<idx_a2, idx_intermediate>>))
    IN Proof(InferenceRule(antecedent1_proof.statement.assumptions, consequent),
             antecedent1_proof.rules \cup {MP, double_conditional}, lines3)

combine_proofs(antecedent1_proof, antecedent2_proof, consequent, double_conditional) ==
    LET a1 == antecedent1_proof.statement.conclusion
        a2 == antecedent2_proof.statement.conclusion
        shift == Len(antecedent1_proof.lines)
        copied == antecedent1_proof.lines
                    \o [i \in DOMAIN antecedent2_proof.lines |->
                           shifted_line(antecedent2_proof.lines[i], shift)]
        idx_a1 == shift - 1
        idx_a2 == Len(copied) - 1
        lines1 == Append(copied, Line(Implies(a1, Implies(a2, consequent)),
                                      double_conditional, <<>>))
        idx_axiom == Len(lines1) - 1
        lines2 == Append(lines1, Line(Implies(a2, consequent), MP, <<idx_a1, idx_axiom>>))
        idx_intermediate == Len(lines2) - 1
        lines3 == Append(lines2, Line(consequent, MP, <<idx_a2, idx_intermediate>>))
    IN Proof(InferenceRule(antecedent1_proof.statement.assumptions, consequent),
             antecedent1_proof.rules \cup {MP, double_conditional}, lines3)

remove_assumption_step_original_refs(proof, psi, new_lines, mapping, i) ==
    LET line == proof.lines[i + 1]
        phi_i == line.formula
        out ==
            IF phi_i = psi /\ is_assumption(line)
            THEN Append(new_lines, Line(Implies(psi, psi), I0, <<>>))
            ELSE IF is_assumption(line) \/ Len(line.rule[1].assumptions) = 0
            THEN LET l1 == Append(new_lines, line)
                     l2 == Append(l1, Line(Implies(phi_i, Implies(psi, phi_i)), I1, <<>>))
                 IN Append(l2, Line(Implies(psi, phi_i), MP, <<Len(l2) - 2, Len(l2) - 1>>))
            ELSE LET j == line.assumptions[1]
                     k == line.assumptions[2]
                     phi_j == proof.lines[j + 1].formula
                     l1 == Append(new_lines,
                                  Line(Implies(Implies(psi, Implies(phi_j, phi_i)),
                                               Implies(Implies(psi, phi_j),
                                                       Implies(psi, phi_i))), D, <<>>))
                     l2 == Append(l1, Line(Implies(Implies(psi, phi_j), Implies(psi, phi_i)),
                                           MP, <<k, Len(l1) - 1>>))
                 IN Append(l2, Line(Implies(psi, phi_i), MP, <<j, Len(l2) - 1>>))
    IN [new_lines |-> out, mapping |-> (i :> (Len(out) - 1)) @@ mapping]

\* one round of the second loop: new_lines and mapping after line i (0-based).
\* The first loop builds a list that the code drops before using it.
remove_assumption_step(proof, psi, new_lines, mapping, i) ==
    LET line == proof.lines[i + 1]
        phi_i == line.formula
        out ==
            IF phi_i = psi /\ is_assumption(line)
            THEN Append(new_lines, Line(Implies(psi, psi), I0, <<>>))
            ELSE IF is_assumption(line) \/ Len(line.rule[1].assumptions) = 0
            THEN LET l1 == Append(new_lines, line)
                     l2 == Append(l1, Line(Implies(phi_i, Implies(psi, phi_i)), I1, <<>>))
                 IN Append(l2, Line(Implies(psi, phi_i), MP, <<Len(l2) - 2, Len(l2) - 1>>))
            ELSE LET j == line.assumptions[1]
                     k == line.assumptions[2]
                     phi_j == proof.lines[j + 1].formula
                     l1 == Append(new_lines,
                                  Line(Implies(Implies(psi, Implies(phi_j, phi_i)),
                                               Implies(Implies(psi, phi_j),
                                                       Implies(psi, phi_i))), D, <<>>))
                     l2 == Append(l1, Line(Implies(Implies(psi, phi_j), Implies(psi, phi_i)),
                                           MP, <<mapping[k], Len(l1) - 1>>))
                 IN Append(l2, Line(Implies(psi, phi_i), MP, <<mapping[j], Len(l2) - 1>>))
    IN [new_lines |-> out, mapping |-> (i :> (Len(out) - 1)) @@ mapping]

RECURSIVE remove_assumption_loop(_, _, _)
\* new_lines and mapping after the first n lines of the proof
remove_assumption_loop(proof, psi, n) ==
    IF n = 0 THEN [new_lines |-> <<>>, mapping |-> <<>>]
    ELSE LET before == remove_assumption_loop(proof, psi, n - 1) IN
         remove_assumption_step(proof, psi, before.new_lines, before.mapping, n - 1)

remove_assumption(proof) ==
    LET n == Len(proof.statement.assumptions)
        gamma == SubSeq(proof.statement.assumptions, 1, n - 1)
        psi == proof.statement.assumptions[n]
        done == remove_assumption_loop(proof, psi, Len(proof.lines))
    IN Proof(InferenceRule(gamma, Implies(psi, proof.statement.conclusion)),
             proof.rules \cup {MP, I0, I1, D}, done.new_lines)

prove_from_opposites_affirmation_first(proof_of_affirmation, proof_of_negation, conclusion) ==
    combine_proofs(proof_of_affirmation, proof_of_negation, conclusion, I2)

prove_from_opposites(proof_of_affirmation, proof_of_negation, conclusion) ==
    combine_proofs(proof_of_negation, proof_of_affirmation, conclusion, I2)

NotPP == Neg(Implies(P, P))

prove_by_way_of_contradiction_swapped_refs(proof) ==
    LET proof_with_removed == remove_assumption(proof)
        phi == first(proof.statement.assumptions[Len(proof.statement.assumptions)])
        f_p_p == Implies(P, P)
        n_specialization == Implies(Implies(Neg(phi), Neg(f_p_p)), Implies(f_p_p, phi))
        idx_removed_phi == Len(proof_with_removed.lines) - 1
        lines1 == Append(proof_with_removed.lines, Line(n_specialization, N, <<>>))
        idx_n_axiom == Len(lines1) - 1
        lines2 == Append(lines1, Line(Implies(f_p_p, phi), MP,
                                      <<idx_removed_phi, idx_n_axiom>>))
        idx_cond_phi == Len(lines2) - 1
        lines3 == Append(lines2, Line(f_p_p, I0, <<>>))
        idx_p_p == Len(lines3) - 1
        lines4 == Append(lines3, Line(phi, MP, <<idx_cond_phi, idx_p_p>>))
    IN Proof(InferenceRule(proof_with_removed.statement.assumptions, phi),
             proof_with_removed.rules \cup {MP, I0, I1, D, N}, lines4)

prove_by_way_of_contradiction(proof) ==
    LET proof_with_removed == remove_assumption(proof)
        phi == first(proof.statement.assumptions[Len(proof.statement.assumptions)])
        f_p_p == Implies(P, P)
        n_specialization == Implies(Implies(Neg(phi), Neg(f_p_p)), Implies(f_p_p, phi))
        idx_removed_phi == Len(proof_with_removed.lines) - 1
        lines1 == Append(proof_with_removed.lines, Line(n_specialization, N, <<>>))
        idx_n_axiom == Len(lines1) - 1
        lines2 == Append(lines1, Line(Implies(f_p_p, phi), MP,
                                      <<idx_removed_phi, idx_n_axiom>>))
        idx_cond_phi == Len(lines2) - 1
        lines3 == Append(lines2, Line(f_p_p, I0, <<>>))
        idx_p_p == Len(lines3) - 1
        lines4 == Append(lines3, Line(phi, MP, <<idx_p_p, idx_cond_phi>>))
    IN Proof(InferenceRule(proof_with_removed.statement.assumptions, phi),
             proof_with_removed.rules \cup {MP, I0, I1, D, N}, lines4)

(***************************************************************************)
(* Soundness engine (propositions/soundness.py).                           *)
(*                                                                         *)
(* The outcome of a call that may raise is [raised, value]: raised tells   *)
(* that an assertion failed, value is the returned value otherwise.        *)
(***************************************************************************)
\* `not v` for a value that is None, True or False
PyNot(v) == v = None \/ v = Some(FALSE)

rule_variables(rule) ==
    formula_variables(rule.conclusion)
        \cup UNION {formula_variables(rule.assumptions[i]) : i \in DOMAIN rule.assumptions}

\* spec_map[var]
MapGet(map, var) == (CHOOSE pr \in map : pr[1] = var)[2]

\* the orders in which the elements of a set may be iterated
Orders(S) == {o \in [1 .. Cardinality(S) -> S] : \A i, j \in DOMAIN o : i # j => o[i] # o[j]}

\* the elements of S in the order they have in order
IterationOf(S, order) == SelectSeq(order, LAMBDA v : v \in S)

general_value_without_substitution(spec_map, var, model) ==
    IF var \in DictKeys(model) THEN evaluate(Formula0(var), model) ELSE Returned(FALSE)

\* the value given to a variable of the general rule
general_value(spec_map, var, model) == evaluate(MapGet(spec_map, var), model)

RECURSIVE new_model_upto(_, _, _, _)
\* new_model after the first n variables of the iteration
new_model_upto(spec_map, iteration, model, n) ==
    IF n = 0 THEN Returned(<<>>)
    ELSE LET new_model == new_model_upto(spec_map, iteration, model, n - 1)
             value == general_value(spec_map, iteration[n], model)
         IN IF new_model.raised \/ value.raised THEN RaisedAssertionError
            ELSE Returned(DictSet(new_model.value, iteration[n], value.value))

\* order is the order in which the set general.variables() is iterated
rule_nonsoundness_from_specialization_nonsoundness(general, specialization, model, order) ==
    IF ~is_specialization_of(specialization, general) THEN RaisedAssertionError
    ELSE IF evaluate_inference(specialization, model).raised
            \/ ~PyNot(evaluate_inference(specialization, model).value)
    THEN RaisedAssertionError
    ELSE LET spec_map == specialization_map(general, specialization).map
             iteration == IterationOf(rule_variables(general), order)
         IN new_model_upto(spec_map, iteration, model, Len(iteration))

\* proof.lines.index(line), 0-based
lines_index(lines, line) ==
    (CHOOSE i \in DOMAIN lines :
        lines[i] = line /\ \A h \in 1 .. i - 1 : lines[h] # line) - 1

found_rule_as_specialization(proof, line, model, order) ==
    LET specialization == rule_for_line(proof, lines_index(proof.lines, line))
        general_rule == line.rule[1]
        bad_model == rule_nonsoundness_from_specialization_nonsoundness(
                         general_rule, specialization, model, order)
    IN IF bad_model.raised THEN RaisedAssertionError
       ELSE Returned(Some(<<specialization, bad_model.value>>))

\* what the loop does at a derived line that is false in the model
found_rule(proof, line, model, order) ==
    LET specialization == rule_for_line(proof, lines_index(proof.lines, line))
        general_rule == line.rule[1]
        bad_model == rule_nonsoundness_from_specialization_nonsoundness(
                         general_rule, specialization, model, order)
    IN IF bad_model.raised THEN RaisedAssertionError
       ELSE Returned(Some(<<general_rule, bad_model.value>>))

RECURSIVE walk_lines(_, _, _, _)
\* the loop over the lines, from line number n (0-based) on; the function
\* ends after the loop without a return statement
walk_lines(proof, model, n, order) ==
    IF n >= Len(proof.lines) THEN Returned(None)
    ELSE LET line == proof.lines[n + 1]
             is_true == evaluate(line.formula, model)
         IN IF is_true.raised THEN RaisedAssertionError
            ELSE IF is_assumption(line)
            THEN IF is_true.value THEN walk_lines(proof, model, n + 1, order)
                 ELSE RaisedAssertionError
            ELSE IF ~is_true.value THEN found_rule(proof, line, model, order)
                 ELSE walk_lines(proof, model, n + 1, order)

nonsound_rule_of_nonsound_proof(proof, model, order) ==
    IF ~is_valid(proof) THEN RaisedAssertionError
    ELSE IF evaluate_inference(proof.statement, model).raised
            \/ ~PyNot(evaluate_inference(proof.statement, model).value)
    THEN RaisedAssertionError
    ELSE walk_lines(proof, model, 0, order)

(***************************************************************************)
(* Arguments of the calls.                                                 *)
(***************************************************************************)
Atoms == {Formula0("p"), Formula0("q"), Formula0("T"), Formula0("F")}

RECURSIVE FormulasOfDepth(_)
\* depth 1 has every binary formula of two atoms; a binary formula of a
\* greater depth has the variable p on its right or the variable q on its left
FormulasOfDepth(d) ==
    IF d = 0 THEN Atoms
    ELSE LET sub == FormulasOfDepth(d - 1) IN
         sub \cup {Formula1("~", f) : f \in sub}
             \cup {Formula2(o, f, P) : o \in BinaryOps, f \in sub}
             \cup {Formula2(o, Q, f) : o \in BinaryOps, f \in sub}
             \cup (IF d = 1
                   THEN {Formula2(o, f, g) : o \in BinaryOps, f \in Atoms, g \in Atoms}
                   ELSE {})

EvalFormulas == FormulasOfDepth(MaxDepth)

\* models over (p, q) and over (p, q, r)
EvalModels ==
    {list_all_models(<<"p", "q">>).value[i] : i \in 1 .. 4}
        \cup {list_all_models(<<"q", "r", "p">>).value[6]}

\* dicts with a key that is not a variable name
NonModels ==
    {<<<<"T", TRUE>>>>, <<<<"p", TRUE>>, <<"~", FALSE>>>>,
     <<<<"p", TRUE>>, <<"q", TRUE>>, <<"T", TRUE>>>>}

\* a model that lacks the variable p
PartialModels == {<<<<"q", TRUE>>>>}

\* the formulas given to truth_values
TruthValuesFormulas == {P, Q, Neg(Formula2("&", P, Q)), Formula2("+", Q, Formula0("T"))}

\* the dicts given as the model of a call
CallModels == EvalModels \cup NonModels \cup PartialModels

RECURSIVE SeqsUpTo(_, _)
SeqsUpTo(S, n) ==
    IF n = 0 THEN {<<>>}
    ELSE LET shorter == SeqsUpTo(S, n - 1) IN
         shorter \cup {Append(s, x) : s \in shorter, x \in S}

Distinct(s) == \A i, j \in DOMAIN s : i # j => s[i] # s[j]

VarLists == {vs \in SeqsUpTo(VarNames, MaxVars) : Distinct(vs)}

ValueLists(n) == [1 .. n -> BOOLEAN]

\* the lists given to synthesize: distinct variable names, the empty list
\* among them, and two lists that hold a constant
SynthesizeLists == VarLists \cup {<<"T">>, <<"p", "T">>}

InferenceRules ==
    {InferenceRule(a, c) :
        a \in SeqsUpTo({Formula0("p"), Formula0("q"), Formula1("~", Formula0("p"))},
                       MaxRuleAssumptions),
        c \in {Formula0("p"), Formula0("q"), Formula2("->", Formula0("p"), Formula0("q"))}}

\* rules an input proof may use besides the axioms of the engine:
\* NQ is a rule that is not sound, O2 and A are axioms of the full system
NQ == InferenceRule(<<>>, Implies(Neg(Q), Neg(Implies(P, P))))

O2 == InferenceRule(<<>>, Implies(P, Formula2("|", P, Q)))

A == InferenceRule(<<>>, Implies(P, Implies(Q, Formula2("&", P, Q))))

\* the assumptions and the rules of the input proofs
Contexts ==
    {<<<<P, Implies(P, Q)>>, {MP}>>,
     <<<<Implies(P, Q), P>>, {MP, I1}>>,
     <<<<Neg(Q)>>, {MP, NQ}>>,
     <<<<Q, Neg(Q)>>, {MP, NQ}>>,
     <<<<Neg(Q), Neg(Q)>>, {MP, NQ}>>,
     <<<<>>, {I1, NQ}>>,
     <<<<P>>, {I1, O2}>>,
     <<<<P, Neg(Implies(P, Q))>>, {MP, NQ}>>}

AxiomFormulas ==
    {NotPP, Implies(P, Implies(Q, P)), Implies(Neg(Q), NotPP), Implies(Neg(Implies(P, Q)), NotPP)}

AxiomLines(rules) ==
    {l \in {Line(f, r, <<>>) : f \in AxiomFormulas, r \in rules} :
        /\ Len(l.rule[1].assumptions) = 0
        /\ is_specialization_of(InferenceRule(<<>>, l.formula), l.rule[1])}

\* the lines that may follow the given lines in a valid proof
NextLines(assumptions, rules, lines) ==
    {AssumptionLine(f) : f \in Range(assumptions)}
        \cup AxiomLines(rules)
        \cup (IF MP \in rules
              THEN {Line(second(lines[jk[2]].formula), MP, <<jk[1] - 1, jk[2] - 1>>) :
                      jk \in {x \in (DOMAIN lines) \X (DOMAIN lines) :
                                /\ lines[x[2]].formula.root = "->"
                                /\ first(lines[x[2]].formula) = lines[x[1]].formula}}
              ELSE {})

RECURSIVE LineSeqs(_, _, _)
LineSeqs(assumptions, rules, n) ==
    IF n = 0 THEN {<<>>}
    ELSE LET shorter == LineSeqs(assumptions, rules, n - 1) IN
         shorter \cup UNION {{Append(s, l) : l \in NextLines(assumptions, rules, s)} :
                               s \in {x \in shorter : Len(x) = n - 1}}

ProofsOf(assumptions, rules, n) ==
    {Proof(InferenceRule(assumptions, lines[Len(lines)].formula), rules, lines) :
        lines \in LineSeqs(assumptions, rules, n) \ {<<>>}}

\* the input proofs, grouped by assumptions and rules
ProofGroups == {ProofsOf(c[1], c[2], MaxLines) : c \in Contexts}

InputProofs == UNION ProofGroups

\* the proofs of a group that pass the assertion proof.is_valid()
ValidProofs(group) == {proof \in group : is_valid(proof)}

Conditionals == {I1, O2, NQ}

\* two more rules that are not sound, for the soundness engine
NP == InferenceRule(<<>>, NotPP)

UR == InferenceRule(<<P, Neg(Q)>>, Formula2("&", Q, P))

SoundnessProofs == InputProofs \cup ProofsOf(<<Neg(Q)>>, {MP, NQ, NP}, MaxLines)

SoundnessRules == {MP, I1, NQ, UR}

SubstitutionFormulas == {P, Q, Neg(Q), Implies(P, Q), Formula0("F")}

RECURSIVE Substitute(_, _)
Substitute(formula, s) ==
    IF formula.root \in DOMAIN s THEN s[formula.root]
    ELSE [root |-> formula.root,
          kids |-> [i \in DOMAIN formula.kids |-> Substitute(formula.kids[i], s)]]

Specializations(general) ==
    {InferenceRule([i \in DOMAIN general.assumptions |->
                       Substitute(general.assumptions[i], s)],
                   Substitute(general.conclusion, s)) :
        s \in [rule_variables(general) -> SubstitutionFormulas]}

SoundnessSpecializations == UNION {Specializations(g) : g \in SoundnessRules}

Consequents(antecedent) ==
    {Implies(Q, antecedent), Formula2("|", antecedent, Q), NotPP, Q}

DoubleConditionals == {I1, A, I2}

DoubleConsequents(a1, a2) == {a1, Formula2("&", a1, a2), R}

Conclusions == {R, Formula2("&", P, Neg(Q))}

(***************************************************************************)
(* The calls.                                                              *)
(***************************************************************************)
Init ==
    /\ call = "idle"
    /\ args = <<>>
    /\ ret = <<>>

Variables ==
    /\ call = "idle"
    /\ \E model \in EvalModels \cup NonModels :
        /\ call' = "variables"
        /\ args' = [model |-> model]
        /\ ret' = variables(model)

Evaluate ==
    /\ call = "idle"
    /\ \E formula \in EvalFormulas, model \in CallModels :
        /\ call' = "evaluate"
        /\ args' = [formula |-> formula, model |-> model]
        /\ ret' = evaluate(formula, model)

Synthesize ==
    /\ call = "idle"
    /\ \E vs \in SynthesizeLists :
        /\ \E values \in ValueLists(Pow2(Len(vs))) :
            /\ call' = "synthesize"
            /\ args' = [variables |-> vs, values |-> values]
            /\ ret' = synthesize(vs, values)

TruthValues ==
    /\ call = "idle"
    /\ \E formula \in TruthValuesFormulas, models \in SeqsUpTo(CallModels, MaxModels) :
        /\ call' = "truth_values"
        /\ args' = [formula |-> formula, models |-> models]
        /\ ret' = truth_values(formula, models)

EvaluateInference ==
    /\ call = "idle"
    /\ \E rule \in InferenceRules, model \in EvalModels \cup NonModels :
        /\ call' = "evaluate_inference"
        /\ args' = [rule |-> rule, model |-> model]
        /\ ret' = evaluate_inference(rule, model)

ProveCorollary ==
    /\ call = "idle"
    /\ \E antecedent_proof \in InputProofs, conditional \in Conditionals :
        \E consequent \in Consequents(antecedent_proof.statement.conclusion) :
            /\ is_valid(antecedent_proof)
            /\ is_specialization_of(
                   InferenceRule(<<>>, Implies(antecedent_proof.statement.conclusion,
                                               consequent)), conditional)
            /\ call' = "prove_corollary"
            /\ args' = [antecedent_proof |-> antecedent_proof,
                        consequent |-> consequent, conditional |-> conditional]
            /\ ret' = prove_corollary(antecedent_proof, consequent, conditional)

CombineProofs ==
    /\ call = "idle"
    /\ \E group \in ProofGroups, double_conditional \in DoubleConditionals :
        \E antecedent1_proof, antecedent2_proof \in ValidProofs(group) :
            \E consequent \in DoubleConsequents(antecedent1_proof.statement.conclusion,
                                                antecedent2_proof.statement.conclusion) :
                /\ Len(antecedent1_proof.lines) + Len(antecedent2_proof.lines)
                       <= MaxCombinedLines
                /\ antecedent1_proof.statement.assumptions
                       = antecedent2_proof.statement.assumptions
                /\ antecedent1_proof.rules = antecedent2_proof.rules
                /\ is_specialization_of(
                       InferenceRule(<<>>,
                           Implies(antecedent1_proof.statement.conclusion,
                                   Implies(antecedent2_proof.statement.conclusion,
                                           consequent))), double_conditional)
                /\ call' = "combine_proofs"
                /\ args' = [antecedent1_proof |-> antecedent1_proof,
                            antecedent2_proof |-> antecedent2_proof,
                            consequent |-> consequent,
                            double_conditional |-> double_conditional]
                /\ ret' = combine_proofs(antecedent1_proof, antecedent2_proof,
                                         consequent, double_conditional)

RemoveAssumption ==
    /\ call = "idle"
    /\ \E proof \in InputProofs :
        /\ is_valid(proof)
        /\ Len(proof.statement.assumptions) > 0
        /\ \A rule \in proof.rules : rule = MP \/ Len(rule.assumptions) = 0
        /\ call' = "remove_assumption"
        /\ args' = [proof |-> proof]
        /\ ret' = remove_assumption(proof)

ProveFromOpposites ==
    /\ call = "idle"
    /\ \E group \in ProofGroups, conclusion \in Conclusions :
        \E proof_of_affirmation, proof_of_negation \in ValidProofs(group) :
            /\ proof_of_affirmation.statement.assumptions
                   = proof_of_negation.statement.assumptions
            /\ Neg(proof_of_affirmation.statement.conclusion)
                   = proof_of_negation.statement.conclusion
            /\ proof_of_affirmation.rules = proof_of_negation.rules
            /\ call' = "prove_from_opposites"
            /\ args' = [proof_of_affirmation |-> proof_of_affirmation,
                        proof_of_negation |-> proof_of_negation,
                        conclusion |-> conclusion]
            /\ ret' = prove_from_opposites(proof_of_affirmation, proof_of_negation,
                                           conclusion)

ProveByWayOfContradiction ==
    /\ call = "idle"
    /\ \E proof \in InputProofs :
        /\ is_valid(proof)
        /\ proof.statement.conclusion = NotPP
        /\ Len(proof.statement.assumptions) > 0
        /\ proof.statement.assumptions[Len(proof.statement.assumptions)].root = "~"
        /\ \A rule \in proof.rules : rule = MP \/ Len(rule.assumptions) = 0
        /\ call' = "prove_by_way_of_contradiction"
        /\ args' = [proof |-> proof]
        /\ ret' = prove_by_way_of_contradiction(proof)

RuleNonsoundnessFromSpecializationNonsoundness ==
    /\ call = "idle"
    /\ \E general \in SoundnessRules, specialization \in SoundnessSpecializations,
          model \in CallModels, order \in Orders(VarNames) :
        /\ call' = "rule_nonsoundness_from_specialization_nonsoundness"
        /\ args' = [general |-> general, specialization |-> specialization,
                    model |-> model]
        /\ ret' = rule_nonsoundness_from_specialization_nonsoundness(
                      general, specialization, model, order)

NonsoundRuleOfNonsoundProof ==
    /\ call = "idle"
    /\ \E proof \in SoundnessProofs, model \in CallModels, order \in Orders(VarNames) :
        /\ call' = "nonsound_rule_of_nonsound_proof"
        /\ args' = [proof |-> proof, model |-> model]
        /\ ret' = nonsound_rule_of_nonsound_proof(proof, model, order)

\* the lists given to all_models: variable names, and two lists that hold
\* a constant
GeneratorLists == SeqsUpTo(VarNames, MaxVars) \cup {<<"T">>, <<"p", "T">>}

\* gen = all_models(variables): the call returns a generator object and runs
\* no line of the body. variables is the list the caller passed, which the
\* caller still holds; touched records that the caller has changed it since.
AllModelsCall ==
    /\ call = "idle"
    /\ \E vs \in GeneratorLists :
        /\ call' = "all_models_generator"
        /\ args' = [variables |-> vs]
        /\ ret' = [gen |-> generator_new, variables |-> vs, touched |-> FALSE,
                   in_loop |-> FALSE, current |-> <<>>, passes |-> <<>>,
                   error |-> "none"]

\* between two steps of the generator the caller changes its list:
\* variables[k] = v, variables.append(v) or variables.pop()
CallerChangesList ==
    /\ call = "all_models_generator"
    /\ ~ret.touched
    /\ \E vs \in {[ret.variables EXCEPT ![k] = v] : k \in DOMAIN ret.variables, v \in VarNames}
                 \cup {Append(ret.variables, v) : v \in VarNames}
                 \cup {SubSeq(ret.variables, 1, Len(ret.variables) - 1)} :
        /\ vs # ret.variables
        /\ ret' = [ret EXCEPT !.variables = vs, !.touched = TRUE]
    /\ UNCHANGED <<call, args>>

\* a loop `for model in gen` starts
IterationStart ==
    /\ call = "all_models_generator"
    /\ ~ret.in_loop
    /\ Len(ret.passes) < MaxPasses
    /\ ret' = [ret EXCEPT !.in_loop = TRUE, !.current = <<>>]
    /\ UNCHANGED <<call, args>>

\* the loop asks the generator for its next model; it ends when there is
\* none, and an exception of the body leaves the loop
IterationStep ==
    /\ call = "all_models_generator"
    /\ ret.in_loop
    /\ LET step == generator_next(ret.variables, ret.gen) IN
        ret' = IF step.error # "none"
               THEN [ret EXCEPT !.gen = step.gen, !.in_loop = FALSE,
                                !.error = step.error]
               ELSE IF step.yielded # None
               THEN [ret EXCEPT !.gen = step.gen,
                                !.current = Append(ret.current, step.yielded[1])]
               ELSE [ret EXCEPT !.gen = step.gen, !.in_loop = FALSE,
                                !.current = <<>>,
                                !.passes = Append(ret.passes, ret.current)]
    /\ UNCHANGED <<call, args>>

Next ==
    \/ Variables
    \/ Evaluate
    \/ TruthValues
    \/ Synthesize
    \/ EvaluateInference
    \/ ProveCorollary
    \/ CombineProofs
    \/ RemoveAssumption
    \/ ProveFromOpposites
    \/ ProveByWayOfContradiction
    \/ RuleNonsoundnessFromSpecializationNonsoundness
    \/ NonsoundRuleOfNonsoundProof
    \/ AllModelsCall
    \/ CallerChangesList
    \/ IterationStart
    \/ IterationStep

Spec == Init /\ [][Next]_vars

\* the calls of the semantics engine alone
SemanticsNext ==
    \/ Variables
    \/ Evaluate
    \/ TruthValues
    \/ Synthesize
    \/ EvaluateInference
    \/ AllModelsCall
    \/ CallerChangesList
    \/ IterationStart
    \/ IterationStep

SemanticsSpec == Init /\ [][SemanticsNext]_vars

\* the calls of the deduction engine alone
DeductionNext ==
    \/ ProveCorollary
    \/ CombineProofs
    \/ RemoveAssumption
    \/ ProveFromOpposites
    \/ ProveByWayOfContradiction

DeductionSpec == Init /\ [][DeductionNext]_vars

\* the calls of the soundness engine alone
SoundnessNext ==
    \/ RuleNonsoundnessFromSpecializationNonsoundness
    \/ NonsoundRuleOfNonsoundProof

SoundnessSpec == Init /\ [][SoundnessNext]_vars

\* one call of all_models and the loops over the value it returns
GeneratorNext ==
    \/ AllModelsCall
    \/ CallerChangesList
    \/ IterationStart
    \/ IterationStep

GeneratorSpec == Init /\ [][GeneratorNext]_vars

(***************************************************************************)
(* Properties.                                                             *)
(***************************************************************************)
DeductionCalls ==
    {"prove_corollary", "combine_proofs", "remove_assumption",
     "prove_from_opposites", "prove_by_way_of_contradiction"}

IsMPLine(line) == ~is_assumption(line) /\ line.rule[1] = MP

HasMPLine(proof) == \E i \in DOMAIN proof.lines : IsMPLine(proof.lines[i])

LastAssumption(proof) == proof.statement.assumptions[Len(proof.statement.assumptions)]

ButLastAssumptions(proof) ==
    SubSeq(proof.statement.assumptions, 1, Len(proof.statement.assumptions) - 1)

\* C1: remove_assumption turns a valid proof of C from (g1,...,gn, psi), whose
\* rules are MP or have no assumptions, into a valid proof of (psi->C) from
\* (g1,...,gn) whose rules are the given ones and MP, I0, I1, D.
C1_RemoveAssumptionProvesImplication ==
    call = "remove_assumption" =>
        /\ is_valid(ret)
        /\ ret.statement.assumptions = ButLastAssumptions(args.proof)
        /\ ret.statement.conclusion
               = Implies(LastAssumption(args.proof), args.proof.statement.conclusion)
        /\ ret.rules = args.proof.rules \cup {MP, I0, I1, D}

\* a proof from two assumptions made of a line assuming psi, a line of the
\* assumptionless rule I1 and an MP line, turned into a proof of seven lines
C1_Witness ==
    /\ call = "remove_assumption"
    /\ Len(args.proof.statement.assumptions) = 2
    /\ HasMPLine(args.proof)
    /\ \E i \in DOMAIN args.proof.lines :
           /\ is_assumption(args.proof.lines[i])
           /\ args.proof.lines[i].formula = LastAssumption(args.proof)
    /\ \E i \in DOMAIN args.proof.lines :
           /\ ~is_assumption(args.proof.lines[i])
           /\ args.proof.lines[i].rule[1] = I1
    /\ is_valid(ret)
    /\ Len(ret.lines) = 7

Acyclic(proof) ==
    \A i \in DOMAIN proof.lines :
        ~is_assumption(proof.lines[i]) =>
            \A a \in Range(proof.lines[i].assumptions) : a >= 0 /\ a < i - 1

\* C2: in every proof the deduction engine returns, each line number a line
\* refers to is the number of an existing line before that line.
C2_ReturnedProofsAcyclic ==
    call \in DeductionCalls => Acyclic(ret)

\* a proof with an MP line extended by prove_corollary: the MP line added
\* refers to the two lines before it
C2_Witness ==
    /\ call = "prove_corollary"
    /\ HasMPLine(args.antecedent_proof)
    /\ ret.lines[Len(ret.lines)].assumptions
           = <<Len(ret.lines) - 3, Len(ret.lines) - 2>>

\* C3: combine_proofs returns the lines of the first proof, the lines of the
\* second with their line numbers raised by the length of the first, the
\* line (a1->(a2->consequent)) of double_conditional, (a2->consequent) by MP
\* from the last line of the first proof and that line, and consequent by MP
\* from the last line of the second proof and the line before; this is a
\* valid proof of consequent from the same assumptions by the rules of the
\* proofs, MP and double_conditional.
C3_CombineProofsLayout ==
    call = "combine_proofs" =>
        LET p1 == args.antecedent1_proof
            p2 == args.antecedent2_proof
            n1 == Len(p1.lines)
            n2 == Len(p2.lines)
            a1 == p1.statement.conclusion
            a2 == p2.statement.conclusion
        IN /\ Len(ret.lines) = n1 + n2 + 3
           /\ SubSeq(ret.lines, 1, n1) = p1.lines
           /\ \A i \in 1 .. n2 :
                  /\ ret.lines[n1 + i].formula = p2.lines[i].formula
                  /\ ret.lines[n1 + i].rule = p2.lines[i].rule
                  /\ Len(ret.lines[n1 + i].assumptions) = Len(p2.lines[i].assumptions)
                  /\ \A h \in DOMAIN p2.lines[i].assumptions :
                         ret.lines[n1 + i].assumptions[h]
                             = p2.lines[i].assumptions[h] + n1
           /\ ret.lines[n1 + n2 + 1]
                  = Line(Implies(a1, Implies(a2, args.consequent)),
                         args.double_conditional, <<>>)
           /\ ret.lines[n1 + n2 + 2]
                  = Line(Implies(a2, args.consequent), MP, <<n1 - 1, n1 + n2>>)
           /\ ret.lines[n1 + n2 + 3]
                  = Line(args.consequent, MP, <<n1 + n2 - 1, n1 + n2 + 1>>)
           /\ is_valid(ret)
           /\ ret.statement = InferenceRule(p1.statement.assumptions, args.consequent)
           /\ ret.rules = p1.rules \cup {MP, args.double_conditional}

\* a second proof with an MP line, whose line numbers the call has raised
C3_Witness ==
    /\ call = "combine_proofs"
    /\ HasMPLine(args.antecedent2_proof)
    /\ Len(args.antecedent1_proof.lines) > 0
    /\ Len(ret.lines) = MaxCombinedLines + 3
    /\ is_valid(ret)

\* C4: prove_corollary returns the lines of the given proof, then
\* (antecedent->consequent) by conditional from no lines, then consequent by
\* MP from the last given line and the line added, in that order; the
\* assumptions are the given ones, the conclusion is consequent, the rules
\* are the given ones, MP and conditional, and the proof is valid.
C4_ProveCorollaryLayout ==
    call = "prove_corollary" =>
        LET p == args.antecedent_proof
            n == Len(p.lines)
        IN /\ Len(ret.lines) = n + 2
           /\ SubSeq(ret.lines, 1, n) = p.lines
           /\ ret.lines[n + 1]
                  = Line(Implies(p.statement.conclusion, args.consequent),
                         args.conditional, <<>>)
           /\ ret.lines[n + 2] = Line(args.consequent, MP, <<n - 1, n>>)
           /\ ret.statement.assumptions = p.statement.assumptions
           /\ ret.statement.conclusion = args.consequent
           /\ ret.rules = p.rules \cup {MP, args.conditional}
           /\ is_valid(ret)

\* a corollary by a rule that the given proof does not use
C4_Witness ==
    /\ call = "prove_corollary"
    /\ args.conditional \notin args.antecedent_proof.rules
    /\ Len(args.antecedent_proof.lines) = MaxLines
    /\ is_valid(ret)
    /\ ret.statement.conclusion = args.consequent

\* C5: prove_by_way_of_contradiction turns a valid proof of ~(p->p) whose
\* last assumption is ~formula, by rules that are MP or have no assumptions,
\* into a valid proof of formula from the other assumptions by the given
\* rules, MP, I0, I1, D and N; a proof from ~q alone gives a proof of q from
\* no assumptions.
C5_ContradictionProvesFormula ==
    call = "prove_by_way_of_contradiction" =>
        /\ is_valid(ret)
        /\ ret.statement.conclusion = first(LastAssumption(args.proof))
        /\ ret.statement.assumptions = ButLastAssumptions(args.proof)
        /\ ret.rules = args.proof.rules \cup {MP, I0, I1, D, N}
        /\ (args.proof.statement.assumptions = <<Neg(Q)>>
                => ret.statement = InferenceRule(<<>>, Q))

\* the proof of ~(p->p) from ~q alone: ~q, (~q->~(p->p)), ~(p->p)
C5_Witness ==
    /\ call = "prove_by_way_of_contradiction"
    /\ args.proof.statement.assumptions = <<Neg(Q)>>
    /\ Len(args.proof.lines) = 3
    /\ HasMPLine(args.proof)
    /\ ret.statement = InferenceRule(<<>>, Q)
    /\ is_valid(ret)

\* C6: prove_from_opposites returns a valid proof of conclusion from the
\* assumptions of the two proofs by their rules, MP and I2: the proof of the
\* negation, the proof of the affirmation, the line
\* (~affirmation->(affirmation->conclusion)) of I2 and the two MP lines, as
\* combine_proofs lays them out.
C6_OppositesProveConclusion ==
    call = "prove_from_opposites" =>
        LET pa == args.proof_of_affirmation
            pn == args.proof_of_negation
            na == Len(pa.lines)
            nn == Len(pn.lines)
            affirmation == pa.statement.conclusion
        IN /\ is_valid(ret)
           /\ ret.statement = InferenceRule(pa.statement.assumptions, args.conclusion)
           /\ ret.rules = pa.rules \cup {MP, I2}
           /\ Len(ret.lines) = nn + na + 3
           /\ SubSeq(ret.lines, 1, nn) = pn.lines
           /\ \A i \in 1 .. na : ret.lines[nn + i] = shifted_line(pa.lines[i], nn)
           /\ ret.lines[nn + na + 1]
                  = Line(Implies(Neg(affirmation), Implies(affirmation, args.conclusion)),
                         I2, <<>>)
           /\ ret.lines[nn + na + 2]
                  = Line(Implies(affirmation, args.conclusion), MP, <<nn - 1, nn + na>>)
           /\ ret.lines[nn + na + 3]
                  = Line(args.conclusion, MP, <<nn + na - 1, nn + na + 1>>)

\* proofs of q and of ~q from the same assumptions, the second of more than
\* one line, combined into a proof of r
C6_Witness ==
    /\ call = "prove_from_opposites"
    /\ args.proof_of_affirmation.statement.conclusion = Q
    /\ args.proof_of_negation.statement.conclusion = Neg(Q)
    /\ args.conclusion = R
    /\ Len(args.proof_of_negation.lines) > 1
    /\ is_valid(ret)
    /\ ret.statement.conclusion = R

\* the truth table of a binary operator: the pairs of operand values for
\* which the formula is true
TruthTable(op) ==
    CASE op = "&" -> {<<TRUE, TRUE>>}
      [] op = "|" -> {<<TRUE, TRUE>>, <<TRUE, FALSE>>, <<FALSE, TRUE>>}
      [] op = "->" -> {<<TRUE, TRUE>>, <<FALSE, TRUE>>, <<FALSE, FALSE>>}
      [] op = "+" -> {<<TRUE, FALSE>>, <<FALSE, TRUE>>}
      [] op = "<->" -> {<<TRUE, TRUE>>, <<FALSE, FALSE>>}
      [] op = "-&" -> {<<TRUE, FALSE>>, <<FALSE, TRUE>>, <<FALSE, FALSE>>}
      [] op = "-|" -> {<<FALSE, FALSE>>}

RECURSIVE TruthValue(_, _)
TruthValue(formula, model) ==
    CASE formula.root = "T" -> TRUE
      [] formula.root = "F" -> FALSE
      [] formula.root \in VarNames ->
             \E i \in DOMAIN model : model[i] = <<formula.root, TRUE>>
      [] formula.root = "~" -> ~TruthValue(formula.kids[1], model)
      [] formula.root \in BinaryOps ->
             <<TruthValue(formula.kids[1], model), TruthValue(formula.kids[2], model)>>
                 \in TruthTable(formula.root)

RECURSIVE IsWellFormed(_)
IsWellFormed(formula) ==
    /\ \/ (formula.root \in VarNames \cup {"T", "F"}) /\ Len(formula.kids) = 0
       \/ formula.root = "~" /\ Len(formula.kids) = 1
       \/ formula.root \in BinaryOps /\ Len(formula.kids) = 2
    /\ \A i \in DOMAIN formula.kids : IsWellFormed(formula.kids[i])

ModelOver(model, vs) ==
    /\ Len(model) = Cardinality(Range(vs))
    /\ DictKeys(model) = Range(vs)

\* a call of synthesize on a nonempty list of distinct variable names
SynthesizeCase ==
    /\ call = "synthesize"
    /\ Len(args.variables) > 0
    /\ Distinct(args.variables)
    /\ \A i \in DOMAIN args.variables : is_variable(args.variables[i])

\* C7: for distinct variables and 2^n values, the values of the synthesized
\* formula in the models of all_models, in order, are the given values; the
\* formula is well formed, also when every value is False.
C7_SynthesizeRoundTrip ==
    SynthesizeCase =>
        /\ ~ret.raised
        /\ IsWellFormed(ret.value)
        /\ formula_variables(ret.value) \subseteq Range(args.variables)
        /\ list_all_models(args.variables).error = "none"
        /\ truth_values(ret.value, list_all_models(args.variables).value)
               = Returned(args.values)
        /\ \A i \in DOMAIN args.values :
               TruthValue(ret.value, list_all_models(args.variables).value[i])
                   = args.values[i]

\* the table that is False everywhere, over two variables
C7_Witness ==
    /\ SynthesizeCase
    /\ args.variables = <<"q", "p">>
    /\ args.values = <<FALSE, FALSE, FALSE, FALSE>>
    /\ ret = Returned(Formula2("&", Q, Neg(Q)))

\* the model m comes before the model n: at the first variable of vs where
\* they differ m has False and n has True
LexLess(m, n, vs) ==
    \E k \in DOMAIN vs :
        /\ \A h \in 1 .. k - 1 : DictGet(m, vs[h]) = DictGet(n, vs[h])
        /\ ~DictGet(m, vs[k])
        /\ DictGet(n, vs[k])

\* one call of all_models on distinct variable names whose list the caller
\* has left alone
GeneratorCase ==
    /\ call = "all_models_generator"
    /\ Distinct(args.variables)
    /\ \A i \in DOMAIN args.variables : is_variable(args.variables[i])
    /\ ~ret.touched

\* the models a pass has yielded so far, and the first completed pass
YieldedSoFar == IF ret.passes = <<>> THEN ret.current ELSE ret.passes[1]

\* C8: for n distinct variables all_models yields 2^n models, each over
\* exactly these variables, each before the next in the lexicographic order
\* in which the first variable counts most and False comes before True; for
\* no variables it yields the empty model alone.
C8_AllModelsLexicographic ==
    GeneratorCase =>
        /\ ret.error = "none"
        /\ Len(YieldedSoFar) <= Pow2(Len(args.variables))
        /\ (ret.passes # <<>> => Len(YieldedSoFar) = Pow2(Len(args.variables)))
        /\ \A i \in DOMAIN YieldedSoFar : ModelOver(YieldedSoFar[i], args.variables)
        /\ \A i, j \in DOMAIN YieldedSoFar :
               i < j => LexLess(YieldedSoFar[i], YieldedSoFar[j], args.variables)
        /\ \A i, j \in DOMAIN YieldedSoFar : i # j => YieldedSoFar[i] # YieldedSoFar[j]
        /\ (args.variables = <<>> /\ ret.passes # <<>> => ret.passes[1] = <<<<>>>>)

\* the models over (p, q) after one pass: FF, FT, TF, TT
C8_Witness ==
    /\ GeneratorCase
    /\ args.variables = <<"p", "q">>
    /\ ret.passes =
           << << <<<<"p", FALSE>>, <<"q", FALSE>>>>, <<<<"p", FALSE>>, <<"q", TRUE>>>>,
                 <<<<"p", TRUE>>, <<"q", FALSE>>>>, <<<<"p", TRUE>>, <<"q", TRUE>>>> >> >>

\* a call of evaluate on a model that has every variable of the formula
EvaluateCase ==
    /\ call = "evaluate"
    /\ \A k \in DictKeys(args.model) : k \in VarNames
    /\ formula_variables(args.formula) \subseteq DictKeys(args.model)

\* C9: evaluate returns the truth value of the formula in the model: the
\* value of a constant, the model's value of a variable, the complement for
\* '~' and the truth table of the operator for a binary formula.
C9_EvaluateTruthValue ==
    EvaluateCase => ret = Returned(TruthValue(args.formula, args.model))

\* ~(p&q) in the model p: True, q: False
C9_Witness ==
    /\ EvaluateCase
    /\ args.formula = Neg(Formula2("&", P, Q))
    /\ args.model = <<<<"p", TRUE>>, <<"q", FALSE>>>>
    /\ ret = Returned(TRUE)

\* the rule holds in the model: not every assumption is true or the
\* conclusion is true
RuleHolds(rule, model) ==
    ~(/\ \A i \in DOMAIN rule.assumptions : TruthValue(rule.assumptions[i], model)
      /\ ~TruthValue(rule.conclusion, model))

\* C10: evaluate_inference returns True when the rule holds in the model and
\* False when it does not.
C10_EvaluateInferenceContract ==
    (call = "evaluate_inference" /\ is_model(args.model)) =>
        ret = Returned(Some(RuleHolds(args.rule, args.model)))

Covers(model, formulas) ==
    \A i \in DOMAIN formulas : formula_variables(formulas[i]) \subseteq DictKeys(model)

LineFormulas(proof) == [i \in DOMAIN proof.lines |-> proof.lines[i].formula]

FalseDerivedLines(proof, model) ==
    {i \in DOMAIN proof.lines :
        /\ ~is_assumption(proof.lines[i])
        /\ ~TruthValue(proof.lines[i].formula, model)}

FirstFalseDerivedLine(proof, model) ==
    CHOOSE i \in FalseDerivedLines(proof, model) :
        \A j \in FalseDerivedLines(proof, model) : i <= j

NonsoundProofCase ==
    /\ call = "nonsound_rule_of_nonsound_proof"
    /\ is_valid(args.proof)
    /\ is_model(args.model)
    /\ Covers(args.model, LineFormulas(args.proof))
    /\ ~RuleHolds(args.proof.statement, args.model)

\* C11: for a valid proof and a model of all the variables of its lines in
\* which the assumptions of the statement are true and its conclusion false,
\* nonsound_rule_of_nonsound_proof returns the rule of the first derived line
\* that is false in the model, with a model over exactly the variables of that
\* rule in which the assumptions of the rule are true and its conclusion false.
C11_NonsoundRuleOfNonsoundProof ==
    NonsoundProofCase =>
        /\ ~ret.raised
        /\ ret.value # None
        /\ FalseDerivedLines(args.proof, args.model) # {}
        /\ LET rule == ret.value[1][1]
               m == ret.value[1][2]
               line == args.proof.lines[FirstFalseDerivedLine(args.proof, args.model)]
           IN /\ rule = line.rule[1]
              /\ rule \in args.proof.rules
              /\ DictKeys(m) = rule_variables(rule)
              /\ Len(m) = Cardinality(rule_variables(rule))
              /\ ~RuleHolds(rule, m)

\* a proof whose first derived line is true and whose false line instantiates
\* its rule by a substitution that is not the identity
C11_Witness ==
    /\ NonsoundProofCase
    /\ ~ret.raised
    /\ ret.value # None
    /\ LET n == FirstFalseDerivedLine(args.proof, args.model)
       IN /\ \E i \in 1 .. n - 1 : ~is_assumption(args.proof.lines[i])
          /\ rule_for_line(args.proof, n - 1) # ret.value[1][1]
          /\ ret.value[1][2] # args.model

SpecializationCase ==
    /\ call = "rule_nonsoundness_from_specialization_nonsoundness"
    /\ args.specialization \in Specializations(args.general)
    /\ is_model(args.model)
    /\ Covers(args.model, Append(args.specialization.assumptions,
                                 args.specialization.conclusion))
    /\ ~RuleHolds(args.specialization, args.model)

\* C12: when the specialization is the general rule under a substitution s and
\* the model makes its assumptions true and its conclusion false,
\* rule_nonsoundness_from_specialization_nonsoundness returns a model over
\* exactly the variables of the general rule that gives each variable v the
\* value of s[v] in the given model, and in the returned model the assumptions
\* of the general rule are true and its conclusion is false.
C12_SpecializationNonsoundness ==
    SpecializationCase =>
        /\ ~ret.raised
        /\ DictKeys(ret.value) = rule_variables(args.general)
        /\ Len(ret.value) = Cardinality(rule_variables(args.general))
        /\ \E s \in [rule_variables(args.general) -> SubstitutionFormulas] :
              /\ args.specialization =
                     InferenceRule([i \in DOMAIN args.general.assumptions |->
                                       Substitute(args.general.assumptions[i], s)],
                                   Substitute(args.general.conclusion, s))
              /\ \A v \in rule_variables(args.general) :
                     DictGet(ret.value, v) = TruthValue(s[v], args.model)
        /\ ~RuleHolds(args.general, ret.value)

\* [p, ~q] |- (q&p) under p := (p->q), q := ~q, in the model p = q = True
C12_Witness ==
    /\ SpecializationCase
    /\ args.general = UR
    /\ args.specialization =
           InferenceRule(<<Implies(P, Q), Neg(Neg(Q))>>, Formula2("&", Neg(Q), Implies(P, Q)))
    /\ args.model = <<<<"p", TRUE>>, <<"q", TRUE>>>>
    /\ ~ret.raised
    /\ ret.value = <<<<"q", FALSE>>, <<"p", TRUE>>>>

\* the 2^n models over the distinct variables vs, in lexicographic order
IsLexicographicModels(models, vs) ==
    /\ Len(models) = Pow2(Len(vs))
    /\ \A i \in DOMAIN models : ModelOver(models[i], vs)
    /\ \A i, j \in DOMAIN models : i < j => LexLess(models[i], models[j], vs)

\* C13 as stated: every pass over the value one call of all_models returned
\* runs from the start and yields the same 2^n models in the same order.
C13_EveryPassYieldsAllModels ==
    GeneratorCase =>
        \A k \in DOMAIN ret.passes :
            /\ IsLexicographicModels(ret.passes[k], args.variables)
            /\ ret.passes[k] = ret.passes[1]

\* C13, amended: the value all_models returns is lazy and finite and can be
\* iterated once: no model is computed before it is asked for, the first pass
\* to exhaustion yields the 2^n models in lexicographic order, and every later
\* pass over the same value yields nothing.
C13_SinglePassGenerator ==
    GeneratorCase =>
        /\ ret.gen.next_i <= Pow2(Len(args.variables))
        /\ (ret.passes = <<>> => Len(ret.current) = ret.gen.next_i)
        /\ (ret.passes = <<>> /\ ~ret.in_loop => ret.gen = generator_new)
        /\ (ret.passes # <<>> =>
              /\ ret.gen.finished
              /\ ret.current = <<>>
              /\ IsLexicographicModels(ret.passes[1], args.variables))
        /\ \A k \in DOMAIN ret.passes : k > 1 => ret.passes[k] = <<>>

\* the value of all_models(['p', 'q']) after two passes to exhaustion
C13_Witness ==
    /\ GeneratorCase
    /\ args.variables = <<"p", "q">>
    /\ ~ret.in_loop
    /\ ret.passes =
           << << <<<<"p", FALSE>>, <<"q", FALSE>>>>, <<<<"p", FALSE>>, <<"q", TRUE>>>>,
                 <<<<"p", TRUE>>, <<"q", FALSE>>>>, <<<<"p", TRUE>>, <<"q", TRUE>>>> >>,
              <<>> >>

\* C14: nonsound_rule_of_nonsound_proof fails with an assertion violation
\* whenever no derived line of the proof is false in the model, and it never
\* completes normally without returning a pair of a rule and a model.
C14_FailsWhenNoFalseDerivedLine ==
    call = "nonsound_rule_of_nonsound_proof" =>
        /\ FalseDerivedLines(args.proof, args.model) = {} => ret.raised
        /\ ret.raised \/ ret.value # None

====
